---- MODULE Spec2Model ----
(***************************************************************************)
(* Model of the document-to-Markdown converters of tomd-comvert:           *)
(*   src/src/doc_to_markdown.py   (Word .docx, OpenDocument .odt/.ods)     *)
(*   src/src/excel_to_markdown.py (spreadsheets)                           *)
(*   src/src/pdf_to_markdown.py   (PDF text and tables)                    *)
(*                                                                         *)
(* Text is a sequence of one-character strings, so that cleaning,          *)
(* substring search and replacement are computed as the code computes      *)
(* them.  Literal fragments the code never inspects (heading markers,      *)
(* the file title) are kept as single tokens of a line.                    *)
(*                                                                         *)
(* A line of the Markdown line buffer is a record whose field `text` is    *)
(* the string the code appends.  The other fields are bookkeeping for the  *)
(* properties: `kind` names the statement that appended the line, `unit`   *)
(* the structural unit it was derived from and `src` the source cells of   *)
(* a table row.                                                            *)
(***************************************************************************)
EXTENDS Integers, Sequences, FiniteSets, TLC

VARIABLES
    entry,             \* the converter / entry point that is running
    input,             \* the source document handed to it
    env,               \* what the environment provides (file, libraries, faults)
    pc,                \* position of the call
    markdown_content,  \* the Markdown line buffer
    text_content,      \* pdf_to_markdown: result of extract_text_from_pdf
    tables_content,    \* pdf_to_markdown: result of extract_tables_from_pdf
    pending,           \* odt_to_markdown: the elements its two loops have still to visit
    result,            \* what the call gave its caller
    file               \* state of the output file

vars == <<entry, input, env, pc, markdown_content, text_content, tables_content,
          pending, result, file>>

-----------------------------------------------------------------------------
(* Strings *)

\* Python's None, pandas' NaN and "no data attribute": values distinct from
\* every text (texts hold one-character strings only).
None == <<"None">>
NaN == <<"NaN">>

\* The characters matched by \s of `re` and removed by str.strip().
WS == {" ", "\n", "\t"}

BR == <<"<", "b", "r", ">">>
NL == <<"\n">>
DASHES == <<"-", "-", "-">>

RECURSIVE Flatten(_)
Flatten(ss) == IF ss = <<>> THEN <<>> ELSE Head(ss) \o Flatten(Tail(ss))

\* sep.join(parts)
RECURSIVE Join(_, _)
Join(parts, sep) ==
    IF parts = <<>> THEN <<>>
    ELSE IF Len(parts) = 1 THEN parts[1]
    ELSE parts[1] \o sep \o Join(Tail(parts), sep)

StartsWith(s, p) == Len(p) <= Len(s) /\ SubSeq(s, 1, Len(p)) = p

\* `sub in s`
Contains(s, sub) ==
    \E i \in 0..(Len(s) - Len(sub)) : SubSeq(s, i + 1, i + Len(sub)) = sub

\* Number of non-overlapping occurrences of sub in s, scanning from the left.
RECURSIVE CountOcc(_, _)
CountOcc(s, sub) ==
    IF sub = <<>> \/ Len(s) < Len(sub) THEN 0
    ELSE IF StartsWith(s, sub)
         THEN 1 + CountOcc(SubSeq(s, Len(sub) + 1, Len(s)), sub)
         ELSE CountOcc(Tail(s), sub)

\* Number of start positions at which sub occurs in s (overlaps included).
CountPos(s, sub) ==
    Cardinality({i \in 0..(Len(s) - Len(sub)) : SubSeq(s, i + 1, i + Len(sub)) = sub})

\* s.replace(old, new): every non-overlapping occurrence, left to right; an
\* empty `old` matches before every character and at the end.
RECURSIVE Replace(_, _, _)
Replace(s, old, new) ==
    IF old = <<>>
    THEN IF s = <<>> THEN new
         ELSE new \o <<Head(s)>> \o Replace(Tail(s), old, new)
    ELSE IF Len(s) < Len(old) THEN s
    ELSE IF StartsWith(s, old)
         THEN new \o Replace(SubSeq(s, Len(old) + 1, Len(s)), old, new)
         ELSE <<Head(s)>> \o Replace(Tail(s), old, new)

RECURSIVE LStrip(_)
LStrip(s) == IF s # <<>> /\ Head(s) \in WS THEN LStrip(Tail(s)) ELSE s

RECURSIVE RStrip(_)
RStrip(s) ==
    IF s # <<>> /\ s[Len(s)] \in WS THEN RStrip(SubSeq(s, 1, Len(s) - 1)) ELSE s

\* s.strip()
Strip(s) == RStrip(LStrip(s))

\* re.sub(r'\s+', ' ', s)
RECURSIVE ReSubSpaces(_)
ReSubSpaces(s) ==
    IF s = <<>> THEN <<>>
    ELSE LET n == Len(s)
             init == SubSeq(s, 1, n - 1)
         IN  IF s[n] \in WS
             THEN IF n > 1 /\ s[n - 1] \in WS
                  THEN ReSubSpaces(init)
                  ELSE Append(ReSubSpaces(init), " ")
             ELSE Append(ReSubSpaces(init), s[n])

clean_text(text) ==
    IF text = None THEN <<>> ELSE Strip(ReSubSpaces(text))

Digit == <<"0", "1", "2", "3", "4", "5", "6", "7", "8", "9">>
IsDigit(c) == \E d \in 1..10 : Digit[d] = c
DigitVal(c) == (CHOOSE d \in 1..10 : Digit[d] = c) - 1

\* str(n) for a natural number
RECURSIVE Str(_)
Str(n) == IF n < 10 THEN <<Digit[n + 1]>> ELSE Str(n \div 10) \o <<Digit[(n % 10) + 1]>>

\* int(s) for a string of decimal digits
RECURSIVE ParseInt(_)
ParseInt(s) ==
    IF s = <<>> THEN 0
    ELSE 10 * ParseInt(SubSeq(s, 1, Len(s) - 1)) + DigitVal(s[Len(s)])

\* s.split(sep) for a non-empty separator
RECURSIVE Split(_, _)
Split(s, sep) ==
    IF ~Contains(s, sep) THEN <<s>>
    ELSE LET k == CHOOSE i \in 0..(Len(s) - Len(sep)) :
                      /\ SubSeq(s, i + 1, i + Len(sep)) = sep
                      /\ \A j \in 0..(i - 1) : SubSeq(s, j + 1, j + Len(sep)) # sep
         IN  <<SubSeq(s, 1, k)>> \o Split(SubSeq(s, k + Len(sep) + 1, Len(s)), sep)

-----------------------------------------------------------------------------
(* Lines of the buffer *)

NoUnit == <<0, 0>>

Line(kind, text, unit, src) == [kind |-> kind, text |-> text, unit |-> unit, src |-> src]

Blank(unit) == Line("blank", <<>>, unit, <<>>)

-----------------------------------------------------------------------------
(* Markdown tables *)

\* "|" + "|".join(cells) + "|"
RowLineDropLast(cells) ==
    <<"|">> \o Join(SubSeq(cells, 1, Len(cells) - 1), <<"|">>) \o <<"|">>

RowLine(cells) == <<"|">> \o Join(cells, <<"|">>) \o <<"|">>

\* ("---" for _ in header_cells)
SeparatorCellsOffByOne(header_cells) == [i \in 1..(Len(header_cells) - 1) |-> DASHES]

SeparatorCells(header_cells) == [i \in 1..Len(header_cells) |-> DASHES]

\* cell.replace('\n', '<br>') over a row
BrCells(cells) == [i \in 1..Len(cells) |-> Replace(cells[i], NL, BR)]

CleanCells(cells) == [i \in 1..Len(cells) |-> clean_text(cells[i])]

\* The cells of a rendered table line, as a Markdown reader splits it.
LineCells(text) ==
    LET parts == Split(text, <<"|">>) IN SubSeq(parts, 2, Len(parts) - 1)

CountCells(text) == Len(LineCells(text))

CountDashCells(text) ==
    Cardinality({i \in 1..Len(LineCells(text)) : LineCells(text)[i] = DASHES})

\* The body rows of a table: one line per row, cells cleaned by `clean`, then
\* cell.replace('\n', '<br>').
BodyRows(rows, unit) ==
    [r \in 1..Len(rows) |->
        Line("row", RowLine(BrCells(rows[r].cells)), unit, rows[r].src)]

\* header + separator + body rows + "" for a non-empty list of cleaned rows,
\* each [cells |-> cleaned cells, src |-> source cells].
TableLines(table_data, unit) ==
    LET header_cells == table_data[1].cells
    IN  << Line("header", RowLine(header_cells), unit, table_data[1].src),
           Line("sep", RowLine(SeparatorCells(header_cells)), unit, table_data[1].src) >>
        \o BodyRows(Tail(table_data), unit)
        \o << Blank(unit) >>

-----------------------------------------------------------------------------
(* Word documents: docx_to_markdown *)

\* A body element is a paragraph [tag |-> "p", style, runs] or a table
\* [tag |-> "tbl", rows]; a run is [text, bold, italic]; a table row is its
\* cells' texts (cell.text joins a cell's paragraphs with newlines).
Heading1 == <<"H", "e", "a", "d", "i", "n", "g", " ", "1">>
Heading2 == <<"H", "e", "a", "d", "i", "n", "g", " ", "2">>
Heading3 == <<"H", "e", "a", "d", "i", "n", "g", " ", "3">>
\* The localized style names (written in the source in Japanese script); each
\* of their characters is named by its code point.
Midashi1 == <<"U+898B", "U+51FA", "U+3057", " ", "1">>
Midashi2 == <<"U+898B", "U+51FA", "U+3057", " ", "2">>
Midashi3 == <<"U+898B", "U+51FA", "U+3057", " ", "3">>
ListWord == <<"L", "i", "s", "t">>
Kajougaki == <<"U+7B87", "U+6761", "U+66F8", "U+304D">>

Stars(n) == [i \in 1..n |-> "*"]
Wrap(text, n) == Stars(n) \o text \o Stars(n)

\* One iteration of `for run in para.runs`.
ApplyRunBoldAsItalic(formatted_text, run) ==
    IF run.bold /\ run.italic
    THEN Replace(formatted_text, run.text, Wrap(run.text, 3))
    ELSE IF run.bold \/ run.italic
    THEN Replace(formatted_text, run.text, Wrap(run.text, 1))
    ELSE formatted_text

ApplyRun(formatted_text, run) ==
    IF run.bold /\ run.italic
    THEN Replace(formatted_text, run.text, Wrap(run.text, 3))
    ELSE IF run.bold
    THEN Replace(formatted_text, run.text, Wrap(run.text, 2))
    ELSE IF run.italic
    THEN Replace(formatted_text, run.text, Wrap(run.text, 1))
    ELSE formatted_text

RECURSIVE FormatRuns(_, _)
FormatRuns(formatted_text, runs) ==
    IF runs = <<>> THEN formatted_text
    ELSE FormatRuns(ApplyRun(formatted_text, Head(runs)), Tail(runs))

\* para.text: the run texts concatenated in order
ParaText(para) == Flatten([i \in 1..Len(para.runs) |-> para.runs[i].text])

DocxParagraphLines(para, unit) ==
    LET text == Strip(ParaText(para))
        style_name == IF para.style # None THEN para.style ELSE <<>>
        H(n) == Line("heading", [i \in 1..n |-> "#"] \o <<" ">> \o text \o NL, unit, <<>>)
    IN  IF text = <<>> THEN <<>>
        ELSE ( IF Contains(style_name, Heading1) \/ Contains(style_name, Midashi1)
               THEN << H(1) >>
               ELSE IF Contains(style_name, Heading2) \/ Contains(style_name, Midashi2)
               THEN << H(2) >>
               ELSE IF Contains(style_name, Heading3) \/ Contains(style_name, Midashi3)
               THEN << H(3) >>
               ELSE IF para.style # None
                       /\ (Contains(para.style, ListWord) \/ Contains(para.style, Kajougaki))
               THEN << Line("list", <<"-", " ">> \o text, unit, <<>>) >>
               ELSE << Line("para", FormatRuns(text, para.runs), unit, <<>>) >> )
             \o << Blank(unit) >>

DocxTableLines(tbl, unit) ==
    IF Len(tbl.rows) > 0
    THEN << Blank(unit) >>
         \o TableLines([r \in 1..Len(tbl.rows) |->
                           [cells |-> CleanCells(tbl.rows[r]), src |-> tbl.rows[r]]], unit)
    ELSE <<>>

DocxElementLines(element, unit) ==
    IF element.tag = "p" THEN DocxParagraphLines(element, unit)
    ELSE IF element.tag = "tbl" THEN DocxTableLines(element, unit)
    ELSE <<>>

docx_to_markdown(doc) ==
    Flatten([i \in 1..Len(doc) |-> DocxElementLines(doc[i], <<i, 0>>)])

-----------------------------------------------------------------------------
(* OpenDocument: odt_to_markdown *)

\* The document is a tree of nodes.  A text node carries `data`; an element
\* carries a qualified name, possibly a style name, and child nodes.
TextNode(data) ==
    [qname |-> "#text", id |-> 0, data |-> data, stylename |-> None, childNodes |-> <<>>]

\* `id` is the identity of the element object: its position in the document.
Element(qname, id, stylename, childNodes) ==
    [qname |-> qname, id |-> id, data |-> None, stylename |-> stylename,
     childNodes |-> childNodes]

\* element.getElementsByType(type): the element itself and its descendant
\* elements of that type, in document order.
RECURSIVE getElementsByType(_, _)
getElementsByType(element, qname) ==
    (IF element.qname = qname THEN <<element>> ELSE <<>>)
    \o Flatten([i \in 1..Len(element.childNodes) |->
                  IF element.childNodes[i].qname = "#text" THEN <<>>
                  ELSE getElementsByType(element.childNodes[i], qname)])

RECURSIVE extract_text_from_odt_element(_)
extract_text_from_odt_element(element) ==
    (IF element.data # None THEN <<element.data>> ELSE <<>>)
    \o Flatten([i \in 1..Len(element.childNodes) |->
                  extract_text_from_odt_element(element.childNodes[i])])

\* ''.join(extract_text_from_odt_element(element))
OdtText(element) == Flatten(extract_text_from_odt_element(element))

HeadingUpper == <<"H", "e", "a", "d", "i", "n", "g">>
HeadingLower == <<"h", "e", "a", "d", "i", "n", "g">>

\* re.search(r'\d+', s): the first maximal run of digits, None when there is none
RECURSIVE DigitRun(_)
DigitRun(s) ==
    IF s # <<>> /\ IsDigit(Head(s)) THEN <<Head(s)>> \o DigitRun(Tail(s)) ELSE <<>>

RECURSIVE ReSearchDigits(_)
ReSearchDigits(s) ==
    IF s = <<>> THEN None
    ELSE IF IsDigit(Head(s)) THEN DigitRun(s)
    ELSE ReSearchDigits(Tail(s))

Min(a, b) == IF a < b THEN a ELSE b

\* The level of a heading paragraph, from its style name.
OdtHeadingLevel(style_name) ==
    LET match == ReSearchDigits(style_name)
    IN  IF match # None THEN Min(ParseInt(match), 6) ELSE 1

OdtIsHeading(style_name) ==
    Contains(style_name, HeadingUpper) \/ Contains(style_name, HeadingLower)

\* One iteration of the loop over the text:p elements.
OdtParagraphLines(element, unit) ==
    LET text_content_ == clean_text(OdtText(element))
        style_name == IF element.stylename # None THEN element.stylename ELSE <<>>
    IN  IF text_content_ = <<>> THEN <<>>
        ELSE IF OdtIsHeading(style_name)
        THEN LET level == OdtHeadingLevel(style_name)
                 prefix == [i \in 1..level |-> "#"]
             IN  << Line("heading", prefix \o <<" ">> \o text_content_ \o NL, unit, style_name) >>
        ELSE << Line("para", text_content_, unit, <<>>), Blank(unit) >>

\* One iteration of the loop over the table:table elements.
OdtTableLines(tbl, unit) ==
    << Blank(unit) >>
    \o ( LET rows == getElementsByType(tbl, "table-row")
             RowCells(row) == getElementsByType(row, "table-cell")
             table_data ==
                 [r \in 1..Len(rows) |->
                    [cells |-> [c \in 1..Len(RowCells(rows[r])) |->
                                   clean_text(OdtText(RowCells(rows[r])[c]))],
                     src   |-> [c \in 1..Len(RowCells(rows[r])) |->
                                   OdtText(RowCells(rows[r])[c])]]]
         IN  IF rows # <<>> THEN TableLines(table_data, unit) ELSE <<>> )

\* Paragraphs and tables interleaved, as they lie in the document.
RECURSIVE OdtUnitsInDocumentOrder(_)
OdtUnitsInDocumentOrder(element) ==
    (IF element.qname \in {"p", "table"} THEN <<element>> ELSE <<>>)
    \o Flatten([i \in 1..Len(element.childNodes) |->
                  IF element.childNodes[i].qname = "#text" THEN <<>>
                  ELSE OdtUnitsInDocumentOrder(element.childNodes[i])])

\* The units of the two passes, in the order the function visits them:
\* doc.getElementsByType(text.P), then doc.getElementsByType(table.Table).
OdtUnits(doc) == getElementsByType(doc, "p") \o getElementsByType(doc, "table")

OdtUnitLines(element, unit) ==
    IF element.qname = "p" THEN OdtParagraphLines(element, unit)
    ELSE OdtTableLines(element, unit)

odt_to_markdown(doc) ==
    Flatten([i \in 1..Len(OdtUnits(doc)) |->
               OdtUnitLines(OdtUnits(doc)[i], <<OdtUnits(doc)[i].id, 0>>)])

-----------------------------------------------------------------------------
(* Spreadsheets: excel_to_markdown *)

\* A workbook is a sequence of sheets [name, df]; a data frame is
\* [columns |-> labels, rows |-> rows of values], every row as long as columns.
\* A value is a text or NaN.
DfEmpty(df) == Len(df.columns) = 0 \/ Len(df.rows) = 0

\* str(val).replace(...) if pd.notna(val) else "" , before the replacement
ExcelCell(val) == IF val # NaN THEN val ELSE <<>>

\* One iteration of the loop over the sheets.  The heading literal is
\* "\n## ", the placeholder is the source's "no data" text.
ExcelSheetLines(sheet, unit) ==
    << Line("heading", <<"\n## ">> \o sheet.name \o NL, unit, <<>>) >>
    \o ( IF DfEmpty(sheet.df)
         THEN << Line("nodata", <<"*(no data)*", "\n">>, unit, <<>>) >>
         ELSE << Line("header", RowLine(sheet.df.columns), unit, sheet.df.columns),
                 Line("sep", RowLine(SeparatorCells(sheet.df.columns)), unit,
                      sheet.df.columns) >>
              \o BodyRows([r \in 1..Len(sheet.df.rows) |->
                             [cells |-> [c \in 1..Len(sheet.df.rows[r]) |->
                                            ExcelCell(sheet.df.rows[r][c])],
                              src   |-> sheet.df.rows[r]]], unit)
              \o << Blank(unit) >> )

Title(file_name) == Line("title", <<"# ", file_name, "\n">>, NoUnit, <<>>)

ExcelContent(file_name, sheets) ==
    << Title(file_name) >>
    \o Flatten([i \in 1..Len(sheets) |-> ExcelSheetLines(sheets[i], <<i, 0>>)])

-----------------------------------------------------------------------------
(* PDF: extract_tables_from_pdf, extract_text_from_pdf, pdf_to_markdown *)

\* A PDF is a sequence of pages [text |-> text or None, tables |-> raw tables];
\* a raw table is a sequence of rows of cells (possibly no row), a cell a text
\* or None.

\* The subheading of a table; the literals stand for the source's
\* "\n### <page>N - <table>M\n".
PdfTableHeading(page_num, table_num, indexed) ==
    <<"\n### page">> \o Str(page_num) \o <<" - table">>
    \o (IF indexed THEN Str(table_num) ELSE <<>>) \o NL

PdfCleanRow(row) ==
    [c \in 1..Len(row) |-> IF row[c] # None THEN clean_text(row[c]) ELSE <<>>]

AnyCell(cleaned) == \E c \in 1..Len(cleaned.cells) : cleaned.cells[c] # <<>>

\* One iteration of `for table_num, table in enumerate(tables, 1)`.
PdfTableLines(page_num, table_num, tables) ==
    LET table == tables[table_num]
        unit == <<page_num, table_num>>
        cleaned_table ==
            SelectSeq([r \in 1..Len(table) |->
                         [cells |-> PdfCleanRow(table[r]), src |-> table[r]]], AnyCell)
    IN  IF Len(table) = 0 THEN <<>>
        ELSE << Line("tableheading",
                     PdfTableHeading(page_num, table_num, Len(tables) > 1), unit, <<>>) >>
             \o ( IF cleaned_table = <<>> THEN <<>>
                  ELSE TableLines(cleaned_table, unit) )

PdfPageTables(page_num, page) ==
    Flatten([t \in 1..Len(page.tables) |-> PdfTableLines(page_num, t, page.tables)])

extract_tables_from_pdf(pdf) ==
    Flatten([p \in 1..Len(pdf) |-> PdfPageTables(p, pdf[p])])

\* One iteration of the page loop of extract_text_from_pdf.
PdfPageText(page_num, page) ==
    IF page.text = None \/ page.text = <<>> THEN <<>>
    ELSE LET paragraphs == Split(page.text, <<"\n", "\n">>)
             Para(i) == LET cleaned == clean_text(paragraphs[i])
                        IN  IF cleaned # <<>>
                            THEN << Line("para", cleaned \o NL, <<page_num, 0>>, <<>>) >>
                            ELSE <<>>
         IN  << Line("pageheading", <<"\n## page">> \o Str(page_num) \o NL,
                     <<page_num, 0>>, <<>>) >>
             \o Flatten([i \in 1..Len(paragraphs) |-> Para(i)])

extract_text_from_pdf(pdf) ==
    Flatten([p \in 1..Len(pdf) |-> PdfPageText(p, pdf[p])])

\* "\n---\n\n# <table data>\n"
Divider == Line("divider", <<"\n---\n\n# table data\n">>, NoUnit, <<>>)

-----------------------------------------------------------------------------
(* The conversion entry points: doc_to_markdown, excel_to_markdown,        *)
(* pdf_to_markdown.                                                        *)
(*                                                                         *)
(* env.exists      os.path.exists(path)                                    *)
(* env.libs        the libraries that can be imported                      *)
(* env.corrupt     the parsing library raises on this file                 *)
(* env.open_fails  open(output_path, 'w') raises                           *)
(* env.write_fails f.write raises after the file was opened                *)
(*                                                                         *)
(* result is "none" while the call runs, "True" or "False" once it         *)
(* returned, and "ImportError" when that exception reached the caller.     *)
(***************************************************************************)

FileName == "file"

NoFile == [state |-> "absent", lines |-> <<>>, data |-> <<>>]

\* f.write('\n'.join(markdown_content))
Written(lines) ==
    [state |-> "written", lines |-> lines,
     data |-> Join([i \in 1..Len(lines) |-> lines[i].text], NL)]

\* `return False`, from the function body or from an except clause
ReturnFalse ==
    /\ result' = "False"
    /\ pc' = "done"
    /\ UNCHANGED <<entry, input, env, markdown_content, text_content, tables_content,
                   pending, file>>

\* The top-level import statements of the module that holds the entry point.
\* doc_to_markdown.py guards its imports (DOCX_AVAILABLE, ODT_AVAILABLE);
\* excel_to_markdown.py and pdf_to_markdown.py do not.
ModuleImports(e) ==
    IF e = "excel" THEN {"pandas"}
    ELSE IF e = "pdf" THEN {"pdfplumber", "pandas"}
    ELSE {}

LoadModule ==
    /\ pc = "load"
    /\ IF ModuleImports(entry) \subseteq env.libs
       THEN pc' = "call" /\ result' = result
       ELSE pc' = "crashed" /\ result' = "ImportError"
    /\ UNCHANGED <<entry, input, env, markdown_content, text_content, tables_content,
                   pending, file>>

DocBegin ==
    /\ pc = "call" /\ entry = "doc"
    /\ IF ~env.exists THEN ReturnFalse
       ELSE /\ markdown_content' = << Title(FileName) >>
            /\ pc' = "dispatch"
            /\ UNCHANGED <<entry, input, env, text_content, tables_content, pending,
                           result, file>>

ConvertDocx ==
    /\ pc = "dispatch" /\ input.ext = ".docx"
    /\ IF "docx" \notin env.libs \/ env.corrupt THEN ReturnFalse
       ELSE /\ markdown_content' = markdown_content \o docx_to_markdown(input.doc)
            /\ pc' = "write"
            /\ UNCHANGED <<entry, input, env, text_content, tables_content, pending,
                           result, file>>

OdtLoad ==
    /\ pc = "dispatch" /\ input.ext \in {".odt", ".ods"}
    /\ IF "odf" \notin env.libs \/ env.corrupt THEN ReturnFalse
       ELSE /\ pending' = OdtUnits(input.doc)
            /\ pc' = "odt"
            /\ UNCHANGED <<entry, input, env, markdown_content, text_content,
                           tables_content, result, file>>

OdtParagraph ==
    /\ pc = "odt"
    /\ pending # <<>>
    /\ Head(pending).qname = "p"
    /\ markdown_content' =
           markdown_content \o OdtParagraphLines(Head(pending), <<Head(pending).id, 0>>)
    /\ pending' = Tail(pending)
    /\ UNCHANGED <<entry, input, env, pc, text_content, tables_content, result, file>>

OdtTable ==
    /\ pc = "odt"
    /\ pending # <<>>
    /\ Head(pending).qname = "table"
    /\ markdown_content' =
           markdown_content \o OdtTableLines(Head(pending), <<Head(pending).id, 0>>)
    /\ pending' = Tail(pending)
    /\ UNCHANGED <<entry, input, env, pc, text_content, tables_content, result, file>>

OdtReturn ==
    /\ pc = "odt"
    /\ pending = <<>>
    /\ pc' = "write"
    /\ UNCHANGED <<entry, input, env, markdown_content, text_content, tables_content,
                   pending, result, file>>

Unsupported ==
    /\ pc = "dispatch" /\ input.ext \notin {".docx", ".odt", ".ods"}
    /\ ReturnFalse

\* pd.ExcelFile picks its engine (xlrd for .xls, openpyxl otherwise) and
\* imports it when called.
ExcelEngine(ext) == IF ext = ".xls" THEN "xlrd" ELSE "openpyxl"

ConvertExcel ==
    /\ pc = "call" /\ entry = "excel"
    /\ IF ~env.exists \/ ExcelEngine(input.ext) \notin env.libs \/ env.corrupt
       THEN ReturnFalse
       ELSE /\ markdown_content' = ExcelContent(FileName, input.doc)
            /\ pc' = "write"
            /\ UNCHANGED <<entry, input, env, text_content, tables_content, pending,
                           result, file>>

PdfBegin ==
    /\ pc = "call" /\ entry = "pdf"
    /\ IF ~env.exists THEN ReturnFalse
       ELSE /\ markdown_content' = << Title(FileName) >>
            /\ pc' = IF input.mode \in {"text", "both"} THEN "pdf_text" ELSE "pdf_tables"
            /\ UNCHANGED <<entry, input, env, text_content, tables_content, pending,
                           result, file>>

\* What `if mode in ["text", "both"]` leaves in the buffer.
PdfAfterText(mode, content, text) ==
    IF text # <<>> /\ mode = "text" THEN content \o text ELSE content

\* What `if mode in ["tables", "both"]` leaves in the buffer.
PdfAfterTables(mode, content, text, tables) ==
    IF tables # <<>>
    THEN content
         \o (IF mode = "both" /\ text # <<>> THEN << Divider >> ELSE <<>>)
         \o tables
    ELSE content

PdfExtractText ==
    /\ pc = "pdf_text"
    /\ IF env.corrupt THEN ReturnFalse
       ELSE /\ text_content' = extract_text_from_pdf(input.doc)
            /\ markdown_content' = PdfAfterText(input.mode, markdown_content, text_content')
            /\ pc' = IF input.mode \in {"tables", "both"} THEN "pdf_tables" ELSE "write"
            /\ UNCHANGED <<entry, input, env, tables_content, pending, result, file>>

PdfExtractTables ==
    /\ pc = "pdf_tables"
    /\ IF env.corrupt THEN ReturnFalse
       ELSE /\ tables_content' = extract_tables_from_pdf(input.doc)
            /\ markdown_content' =
                   PdfAfterTables(input.mode, markdown_content, text_content, tables_content')
            /\ pc' = "write"
            /\ UNCHANGED <<entry, input, env, text_content, pending, result, file>>

\* with open(output_path, 'w') as f: f.write(...); return True
Write ==
    /\ pc = "write"
    /\ pc' = "done"
    /\ IF env.open_fails THEN result' = "False" /\ file' = file
       ELSE IF env.write_fails
       THEN result' = "False" /\ file' = [file EXCEPT !.state = "opened"]
       ELSE result' = "True" /\ file' = Written(markdown_content)
    /\ UNCHANGED <<entry, input, env, markdown_content, text_content, tables_content, pending>>

-----------------------------------------------------------------------------
(* Inputs *)

MaxCols == 2       \* cells of a table row
MaxRows == 2       \* rows of a table
MaxRuns == 2       \* runs of a Word paragraph
MaxOdtUnits == 2   \* paragraphs and tables of an OpenDocument body
MaxPages == 2      \* pages of a PDF
MaxPdfTables == 2  \* raw tables detected on a PDF page

AllLibs == {"docx", "odf", "pandas", "pdfplumber", "xlrd", "openpyxl"}

GoodEnv ==
    [exists |-> TRUE, libs |-> AllLibs, corrupt |-> FALSE, open_fails |-> FALSE,
     write_fails |-> FALSE]

Envs ==
    [exists : BOOLEAN, libs : SUBSET AllLibs, corrupt : BOOLEAN, open_fails : BOOLEAN,
     write_fails : BOOLEAN]

SeqsUpTo(S, lo, hi) == UNION {[1..n -> S] : n \in lo..hi}

A == <<"a">>
AB == <<"a", "\n", "b">>

\* Word
DocxP(style, runs) == [tag |-> "p", style |-> style, runs |-> runs, rows |-> <<>>]
DocxTbl(rows) == [tag |-> "tbl", style |-> None, runs |-> <<>>, rows |-> rows]

TableCellTexts == {A, AB}
Tables(texts) == SeqsUpTo(SeqsUpTo(texts, 1, MaxCols), 0, MaxRows)

DocxStyles ==
    {None, Heading1, <<"L", "i", "s", "t", " ", "B", "u", "l", "l", "e", "t">>}
RunTexts ==
    {<<>>, <<"a">>, <<"a", "b">>, <<"b", "b">>, <<"*">>, <<" ", "a">>}
Runs == [text : RunTexts, bold : BOOLEAN, italic : BOOLEAN]

DocxTableDocs == {<< DocxTbl(t) >> : t \in Tables(TableCellTexts)}
DocxParagraphDocs == {<< DocxP(st, rs) >> : st \in DocxStyles, rs \in SeqsUpTo(Runs, 0, MaxRuns)}

\* OpenDocument
OdtP(id, style, text) == Element("p", id, style, << TextNode(text) >>)
OdtCell(id, text) == Element("table-cell", 0, None, << OdtP(id, None, text) >>)
OdtRow(k, r, cells) ==
    Element("table-row", 0, None,
            [c \in 1..Len(cells) |-> OdtCell(100 * k + 10 * r + c, cells[c])])
OdtTbl(k, rows) ==
    Element("table", 100 * k, None, [r \in 1..Len(rows) |-> OdtRow(k, r, rows[r])])
OdtShapeP(style, text) == [tag |-> "p", style |-> style, text |-> text, rows |-> <<>>]
OdtShapeTbl(rows) == [tag |-> "table", style |-> None, text |-> <<>>, rows |-> rows]
OdtDoc(shapes) ==
    Element("body", 0, None,
            [k \in 1..Len(shapes) |->
                IF shapes[k].tag = "p"
                THEN OdtP(100 * k, shapes[k].style, shapes[k].text)
                ELSE OdtTbl(k, shapes[k].rows)])

StyleWords ==
    { HeadingUpper, HeadingLower, <<"H", "E", "A", "D", "I", "N", "G">>,
      <<"T", "e", "x", "t">> }
StyleNumbers == { <<>>, <<"0">>, <<"3">>, <<"9">>, <<"1", "0">> }
OdtStyles == {None} \cup {w \o n : w \in StyleWords, n \in StyleNumbers}
OdtShapes ==
    {OdtShapeP(st, <<"x">>) : st \in OdtStyles}
    \cup {OdtShapeP(None, <<" ">>)}
    \cup {OdtShapeTbl(t) : t \in {<<>>, << <<A>> >>, << <<A>>, <<A, AB>> >>}}

OdtTableDocs == {OdtDoc(<< OdtShapeTbl(t) >>) : t \in Tables(TableCellTexts)}
OdtDocs == {OdtDoc(sh) : sh \in SeqsUpTo(OdtShapes, 0, MaxOdtUnits)}

\* Spreadsheets
ExcelValues == {AB, NaN}
Frames ==
    UNION { { [columns |-> c, rows |-> r] :
                c \in [1..n -> TableCellTexts],
                r \in SeqsUpTo([1..n -> ExcelValues], 0, MaxRows) } : n \in 1..MaxCols }
Workbooks == {<< [name |-> <<"S">>, df |-> f] >> : f \in Frames}

\* PDF
PdfCellTexts == {None, AB}
PdfTableDocs == {<< [text |-> None, tables |-> << t >>] >> : t \in Tables(PdfCellTexts)}
PdfPageTexts == {None, A, <<"a", "\n", "\n", "b">>}
PdfRawTables == {<<>>, << <<None>> >>, << <<A>> >>}
PdfPages == [text : PdfPageTexts, tables : SeqsUpTo(PdfRawTables, 0, MaxPdfTables)]
PdfDocs == SeqsUpTo(PdfPages, 0, MaxPages)
Modes == {"text", "tables", "both"}

DocInput(ext, doc) == [ext |-> ext, mode |-> "", doc |-> doc]
PdfInput(mode, doc) == [ext |-> ".pdf", mode |-> mode, doc |-> doc]

\* The state in which an entry point is about to run.
Start(e, in, en, at) ==
    /\ entry = e
    /\ input = in
    /\ env = en
    /\ pc = at
    /\ markdown_content = <<>>
    /\ text_content = <<>>
    /\ tables_content = <<>>
    /\ pending = <<>>
    /\ result = "none"
    /\ file = NoFile

-----------------------------------------------------------------------------
(* Specifications *)

\* Every entry point, on one small document each, in every environment.
SmallDocx == << DocxP(None, << [text |-> A, bold |-> TRUE, italic |-> FALSE] >>),
                DocxTbl(<< <<A>> >>) >>
SmallOdt == OdtDoc(<< OdtShapeP(HeadingUpper, A), OdtShapeTbl(<< <<A>> >>) >>)
SmallBook == << [name |-> <<"S">>, df |-> [columns |-> <<A>>, rows |-> << <<AB>> >>]] >>
SmallPdf == << [text |-> A, tables |-> << << <<A>> >> >>] >>

Init ==
    \E en \in Envs :
        \/ Start("doc", DocInput(".docx", SmallDocx), en, "load")
        \/ \E x \in {".odt", ".ods"} : Start("doc", DocInput(x, SmallOdt), en, "load")
        \/ Start("doc", DocInput(".txt", <<>>), en, "load")
        \/ \E x \in {".xls", ".xlsx"} : Start("excel", DocInput(x, SmallBook), en, "load")
        \/ \E m \in Modes : Start("pdf", PdfInput(m, SmallPdf), en, "load")

Next ==
    \/ LoadModule
    \/ DocBegin
    \/ ConvertDocx
    \/ OdtLoad
    \/ OdtParagraph
    \/ OdtTable
    \/ OdtReturn
    \/ Unsupported
    \/ ConvertExcel
    \/ PdfBegin
    \/ PdfExtractText
    \/ PdfExtractTables
    \/ Write

Spec == Init /\ [][Next]_vars

\* Every converter on a document that holds one table.
InitTables ==
    \/ \E d \in DocxTableDocs : Start("doc", DocInput(".docx", d), GoodEnv, "call")
    \/ \E d \in OdtTableDocs : Start("doc", DocInput(".odt", d), GoodEnv, "call")
    \/ \E d \in Workbooks : Start("excel", DocInput(".xlsx", d), GoodEnv, "call")
    \/ \E d \in PdfTableDocs : Start("pdf", PdfInput("tables", d), GoodEnv, "call")

NextTables ==
    \/ DocBegin
    \/ ConvertDocx
    \/ OdtLoad
    \/ OdtParagraph
    \/ OdtTable
    \/ OdtReturn
    \/ ConvertExcel
    \/ PdfBegin
    \/ PdfExtractTables
    \/ Write

SpecTables == InitTables /\ [][NextTables]_vars

\* docx_to_markdown on a document that holds one paragraph.
InitDocx == \E d \in DocxParagraphDocs : Start("doc", DocInput(".docx", d), GoodEnv, "call")

NextDocx == DocBegin \/ ConvertDocx \/ Write

SpecDocx == InitDocx /\ [][NextDocx]_vars

\* odt_to_markdown on paragraphs and tables in any order.
InitOdt == \E d \in OdtDocs : Start("doc", DocInput(".odt", d), GoodEnv, "call")

NextOdt == DocBegin \/ OdtLoad \/ OdtParagraph \/ OdtTable \/ OdtReturn \/ Write

SpecOdt == InitOdt /\ [][NextOdt]_vars

\* pdf_to_markdown in every mode.
InitPdf == \E d \in PdfDocs, m \in Modes : Start("pdf", PdfInput(m, d), GoodEnv, "call")

NextPdf == PdfBegin \/ PdfExtractText \/ PdfExtractTables \/ Write

SpecPdf == InitPdf /\ [][NextPdf]_vars

-----------------------------------------------------------------------------
(* Properties *)

Finished == pc \in {"done", "crashed"}

\* The buffer holds everything the converter function returns.
Converted == pc \in {"write", "done"} /\ result # "False"

Lines(kind) == {i \in 1..Len(markdown_content) : markdown_content[i].kind = kind}

\* The header line of the table that line i belongs to.
HeaderOf(i) ==
    markdown_content[CHOOSE h \in Lines("header") :
                        markdown_content[h].unit = markdown_content[i].unit]

\* C1: in pdf_to_markdown with mode "both", the lines after the title are the
\* text-mode output followed by the table-mode output, with the horizontal rule
\* and the "table data" heading exactly once between them when both produced
\* content; every text-mode line is in the written output.
C1_BothIsTextThenTables ==
    (pc = "done" /\ result = "True" /\ input.mode = "both") =>
        LET text == extract_text_from_pdf(input.doc)
            tables == extract_tables_from_pdf(input.doc)
        IN  file.lines = << Title(FileName) >>
                         \o text
                         \o (IF text # <<>> /\ tables # <<>> THEN << Divider >> ELSE <<>>)
                         \o tables

\* C2: in every emitted table row (header and body rows of every converter),
\* a source cell with embedded newlines is rendered with `<br>` in place of
\* every newline, and the row's line holds no raw newline.
C2_NewlinesBecomeBr ==
    \A i \in Lines("header") \cup Lines("row") :
        LET l == markdown_content[i] IN
        /\ ~Contains(l.text, NL)
        /\ \A c \in 1..Len(l.src) :
              Contains(l.src[c], NL) =>
                  /\ c <= CountCells(l.text)
                  /\ CountOcc(LineCells(l.text)[c], BR) = CountOcc(l.src[c], NL)

\* C3: the separator row appended immediately after a header row has exactly
\* as many `---` cells as the header row has cells, in every converter.
C3_SeparatorMatchesHeader ==
    \A i \in Lines("header") :
        /\ i < Len(markdown_content)
        /\ markdown_content[i + 1].kind = "sep"
        /\ CountDashCells(markdown_content[i + 1].text) = Len(markdown_content[i].src)
        /\ CountCells(markdown_content[i + 1].text) = CountCells(markdown_content[i].text)

C3_Witness ==
    /\ pc = "done"
    /\ \E i \in Lines("header") : Len(markdown_content[i].src) = MaxCols

\* The failures that can occur before the write step.
NeededLibs ==
    IF entry = "excel" THEN {"pandas", ExcelEngine(input.ext)}
    ELSE IF entry = "pdf" THEN {"pdfplumber", "pandas"}
    ELSE IF input.ext = ".docx" THEN {"docx"}
    ELSE IF input.ext \in {".odt", ".ods"} THEN {"odf"}
    ELSE {}

UnsupportedExt == entry = "doc" /\ input.ext \notin {".docx", ".odt", ".ods"}

PreWriteFailure ==
    \/ ~env.exists
    \/ ~(NeededLibs \subseteq env.libs)
    \/ UnsupportedExt
    \/ env.corrupt

\* C4: at each entry point, a failure before the write step (file missing,
\* library missing, unsupported extension, parsing error) ends the call with
\* the result False, no exception reaches the caller and the output file is
\* never opened; the file is written only when the call returns True.
C4_FailureReturnsFalse ==
    /\ (Finished /\ PreWriteFailure) => (result = "False" /\ file.state = "absent")
    /\ file.state = "written" => result = "True"

\* str.lower() on the letters of the style names
Upper == <<"H", "E", "A", "D", "I", "N", "G", "T", "X">>
Lower == <<"h", "e", "a", "d", "i", "n", "g", "t", "x">>
ToLower(str) ==
    [i \in 1..Len(str) |->
        IF \E k \in 1..Len(Upper) : Upper[k] = str[i]
        THEN Lower[CHOOSE k \in 1..Len(Upper) : Upper[k] = str[i]]
        ELSE str[i]]

Clamp(n, lo, hi) == IF n < lo THEN lo ELSE IF n > hi THEN hi ELSE n

\* The heading level the style name encodes: its first decimal number (1 when
\* it has none) clamped into [1,6].
ClaimedLevel(style_name) ==
    IF ReSearchDigits(style_name) = None THEN 1
    ELSE Clamp(ParseInt(ReSearchDigits(style_name)), 1, 6)

HeadingStyled(element) ==
    /\ element.stylename # None
    /\ Contains(ToLower(element.stylename), HeadingLower)
    /\ clean_text(OdtText(element)) # <<>>

\* C5: in odt_to_markdown every non-empty paragraph whose style name contains
\* "heading" in any letter case is emitted as a heading line of exactly L `#`
\* characters and a space, L the first number of the style name (1 if none)
\* clamped into [1,6].
C5_OdtHeadingLevel ==
    Converted =>
        \A k \in 1..Len(getElementsByType(input.doc, "p")) :
            LET element == getElementsByType(input.doc, "p")[k] IN
            HeadingStyled(element) =>
                \E i \in 1..Len(markdown_content) :
                    /\ markdown_content[i].unit = <<element.id, 0>>
                    /\ markdown_content[i].text =
                           [n \in 1..ClaimedLevel(element.stylename) |-> "#"]
                           \o <<" ">> \o clean_text(OdtText(element)) \o NL

\* A raw table none of whose rows survives the cleaning.
Survives(table) ==
    \E r \in 1..Len(table) : AnyCell([cells |-> PdfCleanRow(table[r]), src |-> table[r]])

RawTable(unit) == input.doc[unit[1]].tables[unit[2]]

\* C6: in extract_tables_from_pdf a detected table whose rows are all dropped
\* contributes no line at all (no subheading, header, separator or body row).
C6_DroppedTableEmitsNothing ==
    \A i \in 1..Len(tables_content) : Survives(RawTable(tables_content[i].unit))

Survivors(page) == {t \in 1..Len(page.tables) : Survives(page.tables[t])}

\* C7: the subheadings of a page depend on its number of surviving tables:
\* more than one gives each an indexed "page N - table M" subheading, exactly
\* one gives the un-indexed "page N - table", whatever the number of raw tables.
C7_HeadingBySurvivors ==
    \A i \in 1..Len(tables_content) :
        LET l == tables_content[i]
            page == input.doc[l.unit[1]]
        IN  (l.kind = "tableheading" /\ Survives(RawTable(l.unit))) =>
                IF Cardinality(Survivors(page)) > 1
                THEN \E m \in 1..Len(page.tables) :
                        l.text = PdfTableHeading(l.unit[1], m, TRUE)
                ELSE l.text = PdfTableHeading(l.unit[1], l.unit[2], FALSE)

TableIds ==
    {getElementsByType(input.doc, "table")[k].id :
        k \in 1..Len(getElementsByType(input.doc, "table"))}

IsTableLine(l) == l.unit[1] \in TableIds
IsParagraphLine(l) == l.kind # "title" /\ ~IsTableLine(l)

\* C8: odt_to_markdown fills the buffer in two passes: once a table line has
\* been appended no paragraph line follows it, and within each pass the units
\* appear in document order.
C8_ParagraphsBeforeTables ==
    LET ids == TableIds
        FromTable(l) == l.unit[1] \in ids
    IN  \A i, j \in 1..Len(markdown_content) :
            (i < j /\ markdown_content[i].kind # "title") =>
                LET a == markdown_content[i]
                    b == markdown_content[j]
                IN  /\ FromTable(a) => FromTable(b)
                    /\ (FromTable(a) <=> FromTable(b)) => a.unit[1] <= b.unit[1]

\* A paragraph that follows a table in the document lies before it in the buffer.
C8_Witness ==
    /\ pc = "done"
    /\ \E i, j \in 1..Len(markdown_content) :
          /\ i < j
          /\ IsParagraphLine(markdown_content[i])
          /\ markdown_content[i].kind = "para"
          /\ markdown_content[j].kind = "header"
          /\ markdown_content[i].unit[1] > markdown_content[j].unit[1]

Emphasised(run) == run.bold \/ run.italic

\* The run's text wrapped according to its flags.
WrapRun(run) ==
    IF run.bold /\ run.italic THEN Wrap(run.text, 3)
    ELSE IF run.bold THEN Wrap(run.text, 2)
    ELSE IF run.italic THEN Wrap(run.text, 1)
    ELSE run.text

WrappedRuns(runs) == Flatten([i \in 1..Len(runs) |-> WrapRun(runs[i])])

\* The plain paragraph of the document, once its line is in the buffer.
PlainParagraph ==
    /\ Converted
    /\ Len(input.doc) = 1 /\ input.doc[1].tag = "p"
    /\ Lines("para") # {}

RunsDistinct(runs) ==
    /\ \A i \in 1..Len(runs) : runs[i].text # <<>>
    /\ \A i, j \in 1..Len(runs) : i # j => ~Contains(runs[j].text, runs[i].text)

ParaLine == markdown_content[CHOOSE i \in Lines("para") : TRUE]

\* C9 (as stated): for a non-empty paragraph that is neither heading nor list
\* item and whose run texts are non-empty and not substrings of each other,
\* the emitted line is the concatenation, in run order, of each run's text
\* wrapped according to its flags.
C9_RunsWrappedInOrder ==
    (PlainParagraph /\ RunsDistinct(input.doc[1].runs)) =>
        ParaLine.text = WrappedRuns(input.doc[1].runs)

\* What the substring replacement needs beyond that: the paragraph text has
\* no leading or trailing whitespace, and the text of every emphasised run
\* holds no `*` and occurs exactly once in the paragraph text.
RunsReplaceable(para) ==
    /\ Strip(ParaText(para)) = ParaText(para)
    /\ \A i \in 1..Len(para.runs) :
          Emphasised(para.runs[i]) =>
              /\ ~Contains(para.runs[i].text, <<"*">>)
              /\ CountPos(ParaText(para), para.runs[i].text) = 1

\* C9 (amended): the same, for paragraphs that also satisfy RunsReplaceable.
C9_RunsWrappedWhenReplaceable ==
    (PlainParagraph /\ RunsDistinct(input.doc[1].runs) /\ RunsReplaceable(input.doc[1])) =>
        ParaLine.text = WrappedRuns(input.doc[1].runs)

C9_Witness ==
    /\ pc = "done"
    /\ PlainParagraph /\ RunsDistinct(input.doc[1].runs) /\ RunsReplaceable(input.doc[1])
    /\ Len(input.doc[1].runs) = MaxRuns
    /\ \E i, j \in 1..Len(input.doc[1].runs) :
          /\ input.doc[1].runs[i].bold /\ ~input.doc[1].runs[i].italic
          /\ input.doc[1].runs[j].italic /\ ~input.doc[1].runs[j].bold

\* C10 (as stated): every body row line of a table has the same number of
\* cells as the table's header row, also when the source rows differ in length.
C10_RowsMatchHeader ==
    \A i \in Lines("row") :
        CountCells(markdown_content[i].text) = CountCells(HeaderOf(i).text)

\* C10 (amended): every body row line has as many cells as its own source row;
\* that is the header's number whenever the source row is as long as the
\* table's first row, which it always is in the spreadsheet converter.
C10_RowsMatchSource ==
    \A i \in Lines("row") :
        LET l == markdown_content[i] IN
        /\ CountCells(l.text) = Len(l.src)
        /\ Len(l.src) = Len(HeaderOf(i).src) =>
               CountCells(l.text) = CountCells(HeaderOf(i).text)
        /\ entry = "excel" => CountCells(l.text) = CountCells(HeaderOf(i).text)

C10_Witness ==
    /\ pc = "done"
    /\ \E i \in Lines("row") :
          /\ Len(markdown_content[i].src) # Len(HeaderOf(i).src)
          /\ CountCells(markdown_content[i].text) = Len(markdown_content[i].src)

====
